---------------------------- MODULE Spec2Model ----------------------------
(***************************************************************************)
(* Model of src/app.py: the catalog PDF generator.                         *)
(*                                                                         *)
(*   wrap_text          word wrapping of a product name      (SpecWrap)    *)
(*   filter_products    selection of rows by url / by name   (SpecFilter)  *)
(*   normalize_columns  header trimming, renaming, checking  (SpecNorm)    *)
(*   generate_pdf       grid layout, page breaks, images     (Spec)        *)
(*                                                                         *)
(* A Python str is a sequence of one-character strings.  Lengths are in    *)
(* units of 1/2540 pt, in which every length of generate_pdf is a whole    *)
(* number (1 pt = 2540, 1 mm = 72/25.4 pt = 7200).                         *)
(***************************************************************************)
EXTENDS Integers, Sequences, FiniteSets, TLC

VARIABLES
    \* wrap_text
    w_pc, w_text, w_max_len, w_max_lines, w_lines,
    \* filter_products
    f_pc, f_df, f_mode, f_input, f_result,
    \* normalize_columns
    n_pc, n_df_raw, n_df, n_errors,
    \* generate_pdf
    pc,            \* "begin", "loop", "done", "raised" or "idle"
    show_price,    \* the show_price argument
    idx,           \* rows of products_df iterated so far
    col_index,
    y_top_row,
    pages,         \* the canvas: the pages closed by showPage
    code,          \* the canvas: what is drawn on the open page
    fs,            \* the temporary files that exist
    tmp_pdf_path,
    last           \* the row of the last iteration and what its card holds

w_vars == <<w_pc, w_text, w_max_len, w_max_lines, w_lines>>
f_vars == <<f_pc, f_df, f_mode, f_input, f_result>>
n_vars == <<n_pc, n_df_raw, n_df, n_errors>>
g_vars == <<pc, show_price, idx, col_index, y_top_row, pages, code, fs,
            tmp_pdf_path, last>>
vars == <<w_vars, f_vars, n_vars, g_vars>>

(***************************************************************************)
(* Bounds of the model.                                                    *)
(***************************************************************************)
MaxTextLen == 5       \* characters of a text given to wrap_text
MaxWrapLen == 3       \* largest max_len given to wrap_text
MaxWrapLines == 3     \* largest max_lines given to wrap_text
MaxInputLen == 4      \* characters of the selection text
MaxTableRows == 2     \* rows of the table given to filter_products
MaxRawRows == 2       \* rows of the table given to normalize_columns
MaxProducts == 19     \* rows of the table given to generate_pdf

\* All sequences over S of length at most n.
SeqsUpTo(S, n) == UNION {[1..k -> S] : k \in 0..n}

(***************************************************************************)
(* Python str helpers.                                                     *)
(***************************************************************************)
Whitespace == {" ", "\n"}

\* str.lower() on the characters of the model.
lower_char(ch) == IF ch = "A" THEN "a" ELSE IF ch = "B" THEN "b" ELSE ch

lower(s) == [i \in 1..Len(s) |-> lower_char(s[i])]

RECURSIVE lstrip(_)
lstrip(s) ==
    IF s # <<>> /\ Head(s) \in Whitespace THEN lstrip(Tail(s)) ELSE s

RECURSIVE rstrip(_)
rstrip(s) ==
    IF s # <<>> /\ s[Len(s)] \in Whitespace
        THEN rstrip(SubSeq(s, 1, Len(s) - 1))
        ELSE s

\* str.strip()
strip(s) == rstrip(lstrip(s))

\* str.split(): the maximal runs of non-whitespace characters.
RECURSIVE split_from(_, _, _)
split_from(s, cur, acc) ==
    IF s = <<>>
        THEN IF cur = <<>> THEN acc ELSE Append(acc, cur)
    ELSE IF Head(s) \in Whitespace
        THEN split_from(Tail(s), <<>>, IF cur = <<>> THEN acc ELSE Append(acc, cur))
    ELSE split_from(Tail(s), Append(cur, Head(s)), acc)

split(s) == split_from(s, <<>>, <<>>)

\* str.splitlines(): the lines between "\n"; no empty last line.
RECURSIVE splitlines_from(_, _, _)
splitlines_from(s, cur, acc) ==
    IF s = <<>>
        THEN IF cur = <<>> THEN acc ELSE Append(acc, cur)
    ELSE IF Head(s) = "\n"
        THEN splitlines_from(Tail(s), <<>>, Append(acc, cur))
    ELSE splitlines_from(Tail(s), Append(cur, Head(s)), acc)

splitlines(s) == splitlines_from(s, <<>>, <<>>)

(***************************************************************************)
(* wrap_text (app.py 49-69).                                               *)
(***************************************************************************)
\* The for loop over the words, with its break.
RECURSIVE wrap_loop(_, _, _, _, _)
wrap_loop(words, lines, current, max_len, max_lines) ==
    IF words = <<>> THEN [lines |-> lines, current |-> current]
    ELSE
        LET w == Head(words)
            extra == (IF current # <<>> THEN 1 ELSE 0) + Len(w)
            fits == Len(current) + extra <= max_len
            current2 == IF fits
                          THEN (IF current # <<>> THEN current \o <<" ">> \o w ELSE w)
                          ELSE w
            lines2 == IF fits THEN lines ELSE Append(lines, current)
        IN  IF Len(lines2) >= max_lines
                THEN [lines |-> lines2, current |-> current2]
                ELSE wrap_loop(Tail(words), lines2, current2, max_len, max_lines)

wrap_text(text, max_len, max_lines) ==
    IF text = <<>> THEN <<>>
    ELSE
        LET r == wrap_loop(split(text), <<>>, <<>>, max_len, max_lines)
        IN  IF r.current # <<>> /\ Len(r.lines) < max_lines
                THEN Append(r.lines, r.current)
                ELSE r.lines

WrapChars == {"a", "b", " "}

\* One call of wrap_text.
WrapCall ==
    /\ w_pc = "call"
    /\ w_lines' = wrap_text(w_text, w_max_len, w_max_lines)
    /\ w_pc' = "done"
    /\ UNCHANGED <<w_text, w_max_len, w_max_lines, f_vars, n_vars, g_vars>>

\* The words of a sequence of lines, in order.
RECURSIVE WordsOfLines(_)
WordsOfLines(ls) ==
    IF ls = <<>> THEN <<>> ELSE split(Head(ls)) \o WordsOfLines(Tail(ls))

\* The words joined by single spaces.
RECURSIVE JoinWords(_)
JoinWords(ws) ==
    IF ws = <<>> THEN <<>>
    ELSE IF Len(ws) = 1 THEN Head(ws)
    ELSE Head(ws) \o <<" ">> \o JoinWords(Tail(ws))

IsPrefix(p, s) == Len(p) <= Len(s) /\ SubSeq(s, 1, Len(p)) = p

\* C9: wrap_text returns at most max_lines lines, every line has at most
\* max_len characters and is not empty, and the lines are, in order, the
\* leading words of the text joined by single spaces.
C9_WrapWithinBudget ==
    w_pc = "done" =>
        /\ Len(w_lines) <= w_max_lines
        /\ \A i \in 1..Len(w_lines) :
              /\ Len(w_lines[i]) <= w_max_len
              /\ w_lines[i] # <<>>
              /\ w_lines[i] = JoinWords(split(w_lines[i]))
        /\ IsPrefix(WordsOfLines(w_lines), split(w_text))

(***************************************************************************)
(* filter_products (app.py 286-303).                                       *)
(***************************************************************************)
\* [line.strip() for line in input_text.splitlines() if line.strip()]
RECURSIVE stripped_lines(_)
stripped_lines(ls) ==
    IF ls = <<>> THEN <<>>
    ELSE IF strip(Head(ls)) # <<>>
        THEN <<strip(Head(ls))>> \o stripped_lines(Tail(ls))
        ELSE stripped_lines(Tail(ls))

\* Series.isin(values): membership in the listed values.
isin(v, values) == \E i \in 1..Len(values) : values[i] = v

\* df[mask]: the rows whose mask entry is true, in the order of df.
RECURSIVE boolean_index(_, _)
boolean_index(df, mask) ==
    IF df = <<>> THEN <<>>
    ELSE (IF Head(mask) THEN <<Head(df)>> ELSE <<>>)
             \o boolean_index(Tail(df), Tail(mask))

\* [x.lower() for x in lines]
lower_all(ls) == [i \in 1..Len(ls) |-> lower(ls[i])]

filter_products_nolower(df_norm, selection_mode, input_text) ==
    LET lines == stripped_lines(splitlines(input_text))
    IN  IF lines = <<>> THEN <<>>
        ELSE IF selection_mode = "url"
            THEN boolean_index(df_norm,
                     [i \in 1..Len(df_norm) |-> isin(df_norm[i].product_url, lines)])
            ELSE boolean_index(df_norm,
                     [i \in 1..Len(df_norm) |-> isin(lower(df_norm[i].product_name), lines)])

filter_products(df_norm, selection_mode, input_text) ==
    LET lines == stripped_lines(splitlines(input_text))
    IN  IF lines = <<>> THEN <<>>
        ELSE IF selection_mode = "url"
            THEN boolean_index(df_norm,
                     [i \in 1..Len(df_norm) |-> isin(df_norm[i].product_url, lines)])
            ELSE LET lower_names == lower_all(lines)
                 IN  boolean_index(df_norm,
                         [i \in 1..Len(df_norm) |->
                             isin(lower(df_norm[i].product_name), lower_names)])

FilterChars == {"a", "A", " ", "\n"}

\* The product_name / product_url pairs a table row is drawn from.
FilterRows == {
    [product_name |-> <<"A">>,      product_url |-> <<"a">>],
    [product_name |-> <<"a">>,      product_url |-> <<"A">>],
    [product_name |-> <<"a", " ">>, product_url |-> <<"a", " ", "a">>] }

\* A table: its rows carry their index label, as a DataFrame's do.
Tables ==
    {[i \in 1..Len(t) |-> [index |-> i,
                           product_name |-> t[i].product_name,
                           product_url |-> t[i].product_url]] :
        t \in SeqsUpTo(FilterRows, MaxTableRows)}

\* One call of filter_products.
FilterCall ==
    /\ f_pc = "call"
    /\ f_result' = filter_products(f_df, f_mode, f_input)
    /\ f_pc' = "done"
    /\ UNCHANGED <<f_df, f_mode, f_input, w_vars, n_vars, g_vars>>

\* The lines of a text: the maximal stretches without a line break.
IsLineOf(text, a, b) ==
    /\ 1 <= a /\ a <= b /\ b <= Len(text)
    /\ \A k \in a..b : text[k] # "\n"
    /\ a = 1 \/ text[a - 1] = "\n"
    /\ b = Len(text) \/ text[b + 1] = "\n"

\* The set of trimmed non-empty lines of a text.
TrimmedLineSet(text) ==
    {SubSeq(text, i, j) : <<i, j>> \in
        {p \in (1..Len(text)) \X (1..Len(text)) :
            /\ p[1] <= p[2]
            /\ text[p[1]] \notin Whitespace
            /\ text[p[2]] \notin Whitespace
            /\ \E a \in 1..p[1], b \in p[2]..Len(text) :
                  /\ IsLineOf(text, a, b)
                  /\ \A k \in (a..(p[1] - 1)) \cup ((p[2] + 1)..b) :
                        text[k] \in Whitespace}}

\* Equal up to letter case.
SameLetter(c, d) == c = d \/ {c, d} = {"a", "A"} \/ {c, d} = {"b", "B"}
EqualIgnoringCase(s, t) ==
    Len(s) = Len(t) /\ \A k \in 1..Len(s) : SameLetter(s[k], t[k])

\* Whether a row is selected by the text, in the mode.
Selected(row, mode, text) ==
    IF mode = "url"
        THEN row.product_url \in TrimmedLineSet(text)
        ELSE \E l \in TrimmedLineSet(text) : EqualIgnoringCase(row.product_name, l)

\* C3: filter_products returns exactly the rows whose key is among the
\* trimmed non-empty input lines (product_url compared exactly, product_name
\* compared ignoring case), in table order; with no non-blank line it
\* returns no row.
C3_FilterIsSelectedSubsequence ==
    f_pc = "done" =>
        /\ f_result = SelectSeq(f_df, LAMBDA row : Selected(row, f_mode, f_input))
        /\ TrimmedLineSet(f_input) = {} => f_result = <<>>

\* A call in name mode that selects a row by a line of another letter case,
\* and leaves another row out.
C3_Witness ==
    /\ f_pc = "done"
    /\ f_mode = "name"
    /\ Len(f_df) = 2
    /\ Len(f_result) = 1
    /\ \E l \in TrimmedLineSet(f_input) : l # f_result[1].product_name

(***************************************************************************)
(* normalize_columns (app.py 253-283).  A header is a str whose name part  *)
(* is one element standing for its characters: "  SP " is <<" ", " ",      *)
(* "SP", " ">>.  A table is its column labels and the index labels of its  *)
(* rows.                                                                   *)
(***************************************************************************)
\* df.columns = [c.strip() for c in df.columns]
strip_columns_nostrip(columns) == columns

strip_columns(columns) == [i \in 1..Len(columns) |-> strip(columns[i])]

\* rename_map, applied to one label by df.rename(columns=rename_map).
rename_map(c) ==
    CASE c = <<"Product Name">> -> <<"product_name">>
      [] c = <<"SP">>           -> <<"price">>
      [] c = <<"Product Link">> -> <<"product_url">>
      [] c = <<"Image Link">>   -> <<"image_url">>
      [] OTHER                  -> c

rename(columns) == [i \in 1..Len(columns) |-> rename_map(columns[i])]

required_cols ==
    << <<"product_name">>, <<"price">>, <<"product_url">>, <<"image_url">> >>

\* [col for col in required_cols if col not in df.columns]
missing_cols_first(columns) ==
    LET m == SelectSeq(required_cols, LAMBDA col : ~ isin(col, columns))
    IN  IF m = <<>> THEN <<>> ELSE <<Head(m)>>

missing_cols(columns) ==
    SelectSeq(required_cols, LAMBDA col : ~ isin(col, columns))

\* The table returned, and the messages given to st.error.
normalize_columns(df_raw) ==
    LET columns == rename(strip_columns(df_raw.columns))
        missing == missing_cols(columns)
    IN  IF missing # <<>>
            THEN [df |-> [columns |-> columns, rows |-> <<>>],
                  errors |-> <<[missing |-> missing]>>]
            ELSE [df |-> [columns |-> columns, rows |-> df_raw.rows],
                  errors |-> <<>>]

\* The source headers, as written and in lower case.
SourceNames == <<"Product Name", "SP", "Product Link", "Image Link">>
LowerNames == <<"product name", "sp", "product link", "image link">>

Pads == {<<>>, <<" ">>}

\* The ways the k-th required column appears in an uploaded table: absent,
\* or under its name, in either letter case, with spaces around it or not.
HeaderChoices(k) ==
    {<<>>} \cup
    {<< l \o <<name>> \o t >> : l \in Pads, t \in Pads,
                               name \in {SourceNames[k], LowerNames[k]}}

\* Other columns of the table: none, an ignored one, or one that already has
\* an internal name.
ExtraChoices == {<<>>, << <<"MRP">> >>, << <<"price">> >>}

RawTables ==
    {[columns |-> c1 \o c2 \o c3 \o c4 \o x, rows |-> [i \in 1..n |-> i]] :
        c1 \in HeaderChoices(1), c2 \in HeaderChoices(2),
        c3 \in HeaderChoices(3), c4 \in HeaderChoices(4),
        x \in ExtraChoices, n \in 0..MaxRawRows}

\* One call of normalize_columns.
NormCall ==
    /\ n_pc = "call"
    /\ LET r == normalize_columns(n_df_raw)
       IN  /\ n_df' = r.df
           /\ n_errors' = r.errors
    /\ n_pc' = "done"
    /\ UNCHANGED <<n_df_raw, w_vars, f_vars, g_vars>>

\* A header that is the name with only whitespace around it.
IsPadded(header, name) ==
    \E i \in 1..Len(header) :
        /\ header[i] = name
        /\ \A k \in 1..Len(header) : k # i => header[k] \in Whitespace

\* The table has the k-th source header, up to surrounding whitespace.
HasHeader(df, k) ==
    \E i \in 1..Len(df.columns) : IsPadded(df.columns[i], SourceNames[k])

\* The same, up to letter case too.
HasHeaderAnyCase(df, k) ==
    \E i \in 1..Len(df.columns) :
        \/ IsPadded(df.columns[i], SourceNames[k])
        \/ IsPadded(df.columns[i], LowerNames[k])

\* The table is returned whole, with the four fields, and nothing is reported.
Accepted ==
    /\ n_df.rows = n_df_raw.rows
    /\ Len(n_df.columns) = Len(n_df_raw.columns)
    /\ \A k \in 1..4 : isin(required_cols[k], n_df.columns)
    /\ n_errors = <<>>

\* C4 (as claimed): a table with the four source headers, up to letter case
\* and surrounding whitespace, is returned whole with the four fields and
\* no diagnostic.
C4_AcceptsAnyCase ==
    (n_pc = "done" /\ \A k \in 1..4 : HasHeaderAnyCase(n_df_raw, k)) => Accepted

\* C4 (amended): a table with the four source headers, in their exact letter
\* case and up to surrounding whitespace, is returned whole with the four
\* fields and no diagnostic.
C4_AcceptsPaddedHeaders ==
    (n_pc = "done" /\ \A k \in 1..4 : HasHeader(n_df_raw, k)) => Accepted

\* A table with rows whose four headers all have spaces around them.
C4_Witness ==
    /\ n_pc = "done"
    /\ \A k \in 1..4 : HasHeader(n_df_raw, k)
    /\ \A k \in 1..4 : ~ isin(<<SourceNames[k]>>, n_df_raw.columns)
    /\ Len(n_df_raw.columns) = 5
    /\ Len(n_df_raw.rows) = 2
    /\ Accepted

\* The required fields the table lacks after trimming and renaming.
Lacks(df, k) ==
    /\ ~ HasHeader(df, k)
    /\ ~ \E i \in 1..Len(df.columns) : IsPadded(df.columns[i], required_cols[k][1])

\* C5: a table that lacks a required field after trimming and renaming
\* comes back with zero rows and one diagnostic naming exactly the missing
\* fields; a table that lacks none comes back with all its rows, in order,
\* and no diagnostic.
C5_MissingFieldsReported ==
    n_pc = "done" =>
        IF \E k \in 1..4 : Lacks(n_df_raw, k)
            THEN /\ n_df.rows = <<>>
                 /\ Len(n_errors) = 1
                 /\ \A k \in 1..4 :
                       isin(required_cols[k], n_errors[1].missing)
                           <=> Lacks(n_df_raw, k)
            ELSE /\ n_df.rows = n_df_raw.rows
                 /\ n_errors = <<>>

\* A table with rows that lacks two of the fields and has the other two.
C5_Witness ==
    /\ n_pc = "done"
    /\ Len(n_df_raw.rows) = 2
    /\ Cardinality({k \in 1..4 : Lacks(n_df_raw, k)}) = 2
    /\ Len(n_errors) = 1
    /\ Len(n_errors[1].missing) = 2

(***************************************************************************)
(* generate_pdf (app.py 72-250).                                           *)
(***************************************************************************)
UnitsPerPoint == 20 * 127
pt == UnitsPerPoint
\* reportlab.lib.units.mm = 72 / 25.4 points
mm == (720 * UnitsPerPoint) \div 254
\* reportlab.lib.pagesizes.A4 = (210 * mm, 297 * mm)
width == 210 * mm
height == 297 * mm

margin == 15 * mm
heading_y == height - margin
first_row_top == heading_y - 25 * pt
cols == 3
usable_width == width - 2 * margin
col_width == usable_width \div cols
card_height == 75 * mm
row_spacing == 10 * pt

inner_x_margin == 6 * pt
inner_top_margin == 10 * pt
inner_bottom_margin == 8 * pt
price_bar_height == 8 * mm
line_height == 8 * pt
name_max_len == 24

Max(a, b) == IF a >= b THEN a ELSE b
Min(a, b) == IF a <= b THEN a ELSE b

\* Python values of a price cell: None, a str, or the float nan that pandas
\* gives for an empty spreadsheet cell.
PyNone == [type |-> "NoneType", value |-> ""]
PyStr(v) == [type |-> "str", value |-> v]
PyNaN == [type |-> "float", value |-> "nan"]

\* No path: the None that download_image_to_temp returns.
NoPath == 0

\* tempfile.mkstemp: a file under a name that names no file yet.
mkstemp(files) == CHOOSE p \in 1..(Cardinality(files) + 1) :
                      p \notin files /\ \A q \in 1..(p - 1) : q \in files

\* The outcomes of fetching and drawing a row's image.
ImageOutcomes == {"no_url", "request_error", "timeout", "bad_status",
                  "mkstemp_error", "write_error",
                  "undecodable", "draw_error", "ok"}

\* download_image_to_temp (app.py 16-30): the path returned, the files that
\* exist afterwards, and whether an exception left the function.
download_image_to_temp_uncaught(image, files) ==
    IF image \in {"request_error", "timeout", "bad_status", "mkstemp_error"}
        THEN [path |-> NoPath, files |-> files, raised |-> image = "timeout"]
    ELSE LET tmp_path == mkstemp(files)
         IN  IF image = "write_error"
                 THEN [path |-> NoPath, files |-> files \cup {tmp_path},
                       raised |-> FALSE]
                 ELSE [path |-> tmp_path, files |-> files \cup {tmp_path},
                       raised |-> FALSE]

download_image_to_temp(image, files) ==
    IF image \in {"request_error", "timeout", "bad_status", "mkstemp_error"}
        THEN [path |-> NoPath, files |-> files, raised |-> FALSE]
    ELSE LET tmp_path == mkstemp(files)
         IN  IF image = "write_error"
                 THEN [path |-> NoPath, files |-> files \cup {tmp_path},
                       raised |-> FALSE]
                 ELSE [path |-> tmp_path, files |-> files \cup {tmp_path},
                       raised |-> FALSE]

\* The page break test at the head of the loop body (app.py 106).
need_new_page_top_only(col, y_top) == col = 0 /\ y_top < margin

need_new_page(col, y_top) == col = 0 /\ y_top - card_height < margin

\* The card rectangle (app.py 112-115).
card_rect(col, y_top) ==
    [x |-> margin + col * col_width,
     y |-> y_top - card_height,
     w |-> col_width - 6 * pt,
     h |-> card_height]

\* Content area of a card (app.py 128-134).
price_bar_y(card) == card.y + inner_bottom_margin
content_top(card) == card.y + card.h - inner_top_margin
content_bottom(card) == price_bar_y(card) + price_bar_height + 4 * pt
content_height(card) == content_top(card) - content_bottom(card)

\* The image area (app.py 139-142): 55% of the content height, above 45%.
image_area(card) ==
    [x |-> card.x + inner_x_margin,
     y |-> content_bottom(card) + (content_height(card) * 45) \div 100,
     w |-> card.w - 2 * inner_x_margin,
     h |-> (content_height(card) * 55) \div 100]

\* The try / except around drawImage (app.py 151-175): what fills the slot.
draw_image_or_placeholder(image) ==
    IF image = "ok" THEN "image" ELSE "placeholder"

\* max_lines of the name (app.py 190-194).
name_max_lines(card) ==
    LET name_area_top == image_area(card).y - 4 * pt
        name_area_bottom == content_bottom(card)
        available_text_h == Max(10 * pt, name_area_top - name_area_bottom)
    IN  Min(3, available_text_h \div line_height)

\* Whether the price bar is drawn (app.py 208-210).
draws_price(show, price) == show /\ ~ (price = PyNone \/ price = PyStr(""))

\* The cursor after a card (app.py 238-241).
advance_short_row(col, y_top) ==
    IF col + 1 = cols - 1
        THEN [col_index |-> 0, y_top_row |-> y_top - (card_height + row_spacing)]
        ELSE [col_index |-> col + 1, y_top_row |-> y_top]

advance(col, y_top) ==
    IF col + 1 = cols
        THEN [col_index |-> 0, y_top_row |-> y_top - (card_height + row_spacing)]
        ELSE [col_index |-> col + 1, y_top_row |-> y_top]

\* Canvas.save (app.py 243): the open page is closed if anything is on it.
canvas_save(closed, open) == IF open # <<>> THEN Append(closed, open) ELSE closed

HeadingOp == [op |-> "heading", rec |-> -1, col |-> -1, x |-> width \div 2,
              y |-> heading_y]
CardOp(rec, col, card) == [op |-> "card", rec |-> rec, col |-> col,
                           x |-> card.x, y |-> card.y]

\* The open page after showPage and draw_heading (app.py 107-108).
new_page_no_heading == <<>>

new_page == <<HeadingOp>>

NoCard == [rec |-> -1]

Repeat(ch, n) == [i \in 1..n |-> ch]

\* product_name cells: a short name with spaces around it, and a name of two
\* words that need two lines.
Names == { <<" ", "a", "b", " ", "c", " ">>,
           Repeat("a", 13) \o <<" ">> \o Repeat("b", 13) }

\* price cells
Prices == {PyNone, PyStr(""), PyNaN, PyStr("499")}

\* The rows of products_df: every image outcome, and every price and name
\* with an image that arrives and with one that does not.
ProductRows ==
    {[name |-> n, price |-> p, image |-> i] :
        n \in Names, p \in Prices, i \in {"ok", "timeout"}}
    \cup
    {[name |-> Repeat("a", 13) \o <<" ">> \o Repeat("b", 13),
      price |-> PyStr("499"), image |-> i] : i \in ImageOutcomes}

\* Up to the loop (app.py 79-102): the file of the document is made, the
\* heading is drawn on the first page, the cursor is set.
Begin ==
    /\ pc = "begin"
    /\ tmp_pdf_path' = mkstemp(fs)
    /\ fs' = fs \cup {mkstemp(fs)}
    /\ code' = <<HeadingOp>>
    /\ y_top_row' = first_row_top
    /\ col_index' = 0
    /\ pc' = "loop"
    /\ UNCHANGED <<show_price, idx, pages, last, w_vars, f_vars, n_vars>>

\* One iteration of the loop (app.py 104-241), for the next row of
\* products_df: its name, its price, and what happens to its image.
RenderCard ==
    /\ pc = "loop"
    /\ idx < MaxProducts
    /\ \E row \in ProductRows :
        LET name == row.name
            price == row.price
            image == row.image
            brk == need_new_page(col_index, y_top_row)
            y1 == IF brk THEN first_row_top ELSE y_top_row
            col1 == IF brk THEN 0 ELSE col_index
        IN  \E card \in {card_rect(col1, y1)},
               dl \in {IF image # "no_url"
                           THEN download_image_to_temp(image, fs)
                           ELSE [path |-> NoPath, files |-> fs, raised |-> FALSE]} :
              \* showPage and draw_heading, then the card's rectangle
              /\ pages' = IF brk THEN Append(pages, code) ELSE pages
              /\ code' = Append(IF brk THEN new_page ELSE code,
                                CardOp(idx, col1, card))
              /\ IF dl.raised
                   THEN /\ pc' = "raised"
                        /\ fs' = dl.files
                        /\ UNCHANGED <<idx, col_index, y_top_row, last>>
                   ELSE /\ pc' = "loop"
                        \* finally: os.remove(tmp_img_path)
                        /\ fs' = IF dl.path # NoPath
                                     THEN dl.files \ {dl.path}
                                     ELSE dl.files
                        /\ idx' = idx + 1
                        /\ col_index' = advance(col1, y1).col_index
                        /\ y_top_row' = advance(col1, y1).y_top_row
                        /\ last' =
                             [rec |-> idx, name |-> name, price |-> price,
                              image |-> image, card |-> card,
                              slot |-> IF dl.path # NoPath
                                           THEN draw_image_or_placeholder(image)
                                           ELSE "placeholder",
                              slot_area |-> image_area(card),
                              max_lines |-> name_max_lines(card),
                              name_lines |-> wrap_text(strip(name), name_max_len,
                                                       name_max_lines(card)),
                              price_tag |-> draws_price(show_price, price),
                              new_page |-> brk]
    /\ UNCHANGED <<show_price, tmp_pdf_path, w_vars, f_vars, n_vars>>

\* After the last row (app.py 243-250): the document is saved, read back
\* and its file removed; pages is the document returned.
Save ==
    /\ pc = "loop"
    /\ pages' = canvas_save(pages, code)
    /\ code' = <<>>
    /\ fs' = fs \ {tmp_pdf_path}
    /\ pc' = "done"
    /\ UNCHANGED <<show_price, idx, col_index, y_top_row, tmp_pdf_path, last,
                   w_vars, f_vars, n_vars>>

(***************************************************************************)
(* The document: its pages, the open one included while the loop runs.     *)
(***************************************************************************)
DocPages == IF pc = "loop" THEN Append(pages, code) ELSE pages

\* The cards of the document, each with the number of its page.
DocCards ==
    {[page |-> p, op |-> DocPages[p][i]] :
        <<p, i>> \in {q \in (1..Len(DocPages)) \X (1..(MaxProducts + 2)) :
                        /\ q[2] <= Len(DocPages[q[1]])
                        /\ DocPages[q[1]][q[2]].op = "card"}}

Ceil(a, b) == (a + b - 1) \div b

\* The rows of cards that fit between the top of the first row and the
\* bottom margin.
RowsPerPage ==
    Cardinality({r \in 1..(height \div card_height) :
        first_row_top - (r - 1) * (card_height + row_spacing) - card_height
            >= margin})

\* C1 (as claimed): the document of N records has ceil(N / (cols *
\* rows_per_page)) pages, for every N >= 0.
C1_PageCountIsCeil ==
    pc = "done" => Len(pages) = Ceil(idx, cols * RowsPerPage)

\* C1 (amended): 3 rows fit on a page, the document of N >= 1 records has
\* ceil(N / 9) pages, and the document of no record has one page, which
\* holds the heading alone.
C1_PageCountIsCeilOrOne ==
    /\ RowsPerPage = 3
    /\ pc = "done" =>
          IF idx = 0
              THEN pages = << <<HeadingOp>> >>
              ELSE Len(pages) = Ceil(idx, cols * RowsPerPage)

\* A document of 18 records, an exact multiple of 9: two pages.
C1_Witness == pc = "done" /\ idx = 18 /\ Len(pages) = 2

\* Reading order: page, then row from the top, then column.
Before(c, d) ==
    \/ c.page < d.page
    \/ c.page = d.page /\ c.op.y > d.op.y
    \/ c.page = d.page /\ c.op.y = d.op.y /\ c.op.col < d.op.col

\* C2: every record iterated has exactly one card, the k-th record's card is
\* in column k mod 3, and the card of an earlier record comes before the
\* card of a later one in page, row, column order.
C2_OneCardPerRecordInOrder ==
    pc \in {"loop", "done"} =>
        /\ {c.op.rec : c \in DocCards} = 0..(idx - 1)
        /\ Cardinality(DocCards) = idx
        /\ \A c \in DocCards :
              /\ c.op.col = c.op.rec % 3
              /\ c.op.x = margin + c.op.col * col_width
        /\ \A c, d \in DocCards : c.op.rec < d.op.rec => Before(c, d)

\* Two records: one page, one row, cards in columns 0 and 1, column 2 empty.
C2_Witness ==
    /\ pc = "done"
    /\ idx = 2
    /\ Len(pages) = 1
    /\ \E c, d \in DocCards :
          /\ c.op.rec = 0 /\ c.op.col = 0
          /\ d.op.rec = 1 /\ d.op.col = 1
          /\ c.op.y = d.op.y
    /\ ~ \E c \in DocCards : c.op.col = 2

\* Where the card of the k-th record is when every image arrives.
ExpectedPage(k) == k \div 9 + 1
ExpectedCard(k) ==
    [x |-> margin + (k % 3) * col_width,
     y |-> first_row_top - ((k % 9) \div 3) * (card_height + row_spacing)
               - card_height,
     w |-> col_width - 6 * pt,
     h |-> card_height]

\* The image slot of a card: the upper 55% of what is left of the card
\* above the price bar, inside the side margins.
ExpectedSlot(card) ==
    LET bottom == card.y + 8 * pt + 8 * mm + 4 * pt
        top == card.y + card.h - 10 * pt
    IN  [x |-> card.x + 6 * pt,
         y |-> bottom + ((top - bottom) * 45) \div 100,
         w |-> card.w - 12 * pt,
         h |-> ((top - bottom) * 55) \div 100]

\* The lines of the names of the model, wrapped at 24 characters.
ExpectedLines(name) ==
    IF name = <<" ", "a", "b", " ", "c", " ">>
        THEN << <<"a", "b", " ", "c">> >>
        ELSE << Repeat("a", 13), Repeat("b", 13) >>

\* C6: no image outcome ends generate_pdf early; a card whose image did not
\* arrive or could not be drawn has a placeholder in the image slot, the
\* slot, the card, the name and the price tag are where and what they are
\* for a record whose image arrives, and so are the cards and the pages of
\* the whole document.
C6_ImageFailuresKeepLayout ==
    /\ pc # "raised"
    /\ last # NoCard =>
          /\ last.slot = (IF last.image = "ok" THEN "image" ELSE "placeholder")
          /\ last.card = ExpectedCard(last.rec)
          /\ last.slot_area = ExpectedSlot(last.card)
          /\ last.name_lines = ExpectedLines(last.name)
          /\ last.price_tag = (show_price /\ last.price \notin {PyNone, PyStr("")})
    /\ pc \in {"loop", "done"} =>
          /\ Cardinality(DocCards) = idx
          /\ \A c \in DocCards :
                /\ c.page = ExpectedPage(c.op.rec)
                /\ c.op.x = ExpectedCard(c.op.rec).x
                /\ c.op.y = ExpectedCard(c.op.rec).y
    /\ pc = "done" => Len(pages) = (IF idx = 0 THEN 1 ELSE ExpectedPage(idx - 1))

\* The fetch of the last record's image timed out: its card has the
\* placeholder, its name and its price tag, and the document is returned.
C6_Witness ==
    /\ pc = "done"
    /\ idx = 4
    /\ last.image = "timeout"
    /\ last.slot = "placeholder"
    /\ Len(last.name_lines) = 2
    /\ last.price_tag

\* The temporary image files that exist.
TempImageFiles == fs \ {tmp_pdf_path}

\* C7: when the step of a record ends, no temporary image file exists, and
\* none exists after generate_pdf returns.
C7_TempImagesReleased ==
    pc \in {"loop", "done"} => TempImageFiles = {}

\* C8: a card has a price tag if and only if show_price is set and the
\* record's price is not absent, where None, the empty string and the
\* value of an empty spreadsheet cell are absent.
C8_PriceTagIffPresent ==
    last # NoCard =>
        (last.price_tag <=>
            show_price /\ last.price \notin {PyNone, PyStr(""), PyNaN})

\* A step of the loop starts a page exactly when the cursor is in column 0
\* and less than a card height is left above the margin; the page then
\* starts with the heading and the card is in the first row.
PageBreakRule ==
    (pc = "loop" /\ pc' = "loop") =>
        /\ (Len(pages') = Len(pages) + 1)
               <=> (col_index = 0 /\ y_top_row - card_height < margin)
        /\ Len(pages') \in {Len(pages), Len(pages) + 1}
        /\ Len(pages') = Len(pages) + 1 =>
              /\ pages' = Append(pages, code)
              /\ Len(code') = 2
              /\ code'[1] = HeadingOp
              /\ code'[2].op = "card"
              /\ code'[2].y = (heading_y - 25 * pt) - card_height
              /\ code'[2].col = 0

\* Every page has the heading once, as the first thing drawn on it, and no
\* card reaches below the bottom margin.
PagesWellFormed ==
    \A p \in 1..Len(DocPages) :
        /\ Len(DocPages[p]) >= 1
        /\ DocPages[p][1].op = "heading"
        /\ \A i \in 2..Len(DocPages[p]) :
              /\ DocPages[p][i].op = "card"
              /\ DocPages[p][i].y >= margin

\* C10: a page is started exactly at column 0 with less than a card height
\* left, with the heading redrawn and the cursor reset; every page carries
\* the heading once, before its cards, and every card is above the margin.
C10_PageBreaksAtRowStart ==
    [][PageBreakRule]_vars /\ [](pc \in {"loop", "done"} => PagesWellFormed)

\* A third page has been started and holds the heading and a card.
C10_Witness ==
    /\ pc = "loop"
    /\ Len(pages) = 2
    /\ Len(code) = 2
    /\ code[1].op = "heading"
    /\ code[2].rec = 18

Next == Begin \/ RenderCard \/ Save

(***************************************************************************)
(* One specification for each function.  The variables of the functions   *)
(* that a specification does not call keep their idle values.              *)
(***************************************************************************)
\* generate_pdf is called with a show_price; the rows of products_df are
\* drawn as the loop reaches them.
Init ==
    /\ w_pc = "idle"
    /\ w_text = <<>>
    /\ w_max_len = 0
    /\ w_max_lines = 0
    /\ w_lines = <<>>
    /\ f_pc = "idle"
    /\ f_df = <<>>
    /\ f_mode = "url"
    /\ f_input = <<>>
    /\ f_result = <<>>
    /\ n_pc = "idle"
    /\ n_df_raw = [columns |-> <<>>, rows |-> <<>>]
    /\ n_df = [columns |-> <<>>, rows |-> <<>>]
    /\ n_errors = <<>>
    /\ pc = "begin"
    /\ show_price \in BOOLEAN
    /\ idx = 0
    /\ col_index = 0
    /\ y_top_row = 0
    /\ pages = <<>>
    /\ code = <<>>
    /\ fs = {}
    /\ tmp_pdf_path = NoPath
    /\ last = NoCard

Spec == Init /\ [][Next]_vars

\* wrap_text is called with a text, a max_len and a max_lines >= 1.
WrapInit ==
    /\ w_pc = "call"
    /\ w_text \in SeqsUpTo(WrapChars, MaxTextLen)
    /\ w_max_len \in 1..MaxWrapLen
    /\ w_max_lines \in 1..MaxWrapLines
    /\ w_lines = <<>>
    /\ f_pc = "idle"
    /\ f_df = <<>>
    /\ f_mode = "url"
    /\ f_input = <<>>
    /\ f_result = <<>>
    /\ n_pc = "idle"
    /\ n_df_raw = [columns |-> <<>>, rows |-> <<>>]
    /\ n_df = [columns |-> <<>>, rows |-> <<>>]
    /\ n_errors = <<>>
    /\ pc = "idle"
    /\ show_price = FALSE
    /\ idx = 0
    /\ col_index = 0
    /\ y_top_row = 0
    /\ pages = <<>>
    /\ code = <<>>
    /\ fs = {}
    /\ tmp_pdf_path = NoPath
    /\ last = NoCard

SpecWrap == WrapInit /\ [][WrapCall]_vars

\* filter_products is called with a table, a mode and a selection text.
FilterInit ==
    /\ w_pc = "idle"
    /\ w_text = <<>>
    /\ w_max_len = 0
    /\ w_max_lines = 0
    /\ w_lines = <<>>
    /\ f_pc = "call"
    /\ f_df \in Tables
    /\ f_mode \in {"url", "name"}
    /\ f_input \in SeqsUpTo(FilterChars, MaxInputLen)
    /\ f_result = <<>>
    /\ n_pc = "idle"
    /\ n_df_raw = [columns |-> <<>>, rows |-> <<>>]
    /\ n_df = [columns |-> <<>>, rows |-> <<>>]
    /\ n_errors = <<>>
    /\ pc = "idle"
    /\ show_price = FALSE
    /\ idx = 0
    /\ col_index = 0
    /\ y_top_row = 0
    /\ pages = <<>>
    /\ code = <<>>
    /\ fs = {}
    /\ tmp_pdf_path = NoPath
    /\ last = NoCard

SpecFilter == FilterInit /\ [][FilterCall]_vars

\* normalize_columns is called with an uploaded table.
NormInit ==
    /\ w_pc = "idle"
    /\ w_text = <<>>
    /\ w_max_len = 0
    /\ w_max_lines = 0
    /\ w_lines = <<>>
    /\ f_pc = "idle"
    /\ f_df = <<>>
    /\ f_mode = "url"
    /\ f_input = <<>>
    /\ f_result = <<>>
    /\ n_pc = "call"
    /\ n_df_raw \in RawTables
    /\ n_df = [columns |-> <<>>, rows |-> <<>>]
    /\ n_errors = <<>>
    /\ pc = "idle"
    /\ show_price = FALSE
    /\ idx = 0
    /\ col_index = 0
    /\ y_top_row = 0
    /\ pages = <<>>
    /\ code = <<>>
    /\ fs = {}
    /\ tmp_pdf_path = NoPath
    /\ last = NoCard

SpecNorm == NormInit /\ [][NormCall]_vars

=============================================================================
